---- MODULE Spec2Model ----
(***************************************************************************)
(* A model of the janetic genetic-algorithm engine: chromosomes as heap    *)
(* objects (identity, genes, stored fitness), the four operators (knapsack *)
(* fitness, roulette-wheel selection, single-point crossover, flip         *)
(* mutation) and Population.evolve as a sequence of its five stages.       *)
(*                                                                         *)
(* Probabilities are integers, Scale standing for 1; a random draw is a     *)
(* nondeterministic choice over the values the generator can return.       *)
(***************************************************************************)
EXTENDS Integers, Sequences, FiniteSets, TLC

VARIABLES
  chromosomes,      \* Population.chromosomes: the list of chromosome identities
  genes,            \* Chromosome.genes of every live chromosome object
  fitness,          \* Chromosome.fitness of every live chromosome object
  genes_type,       \* Population.genes_type
  population_size,  \* Population.population_size
  pc,               \* position inside Population.evolve ("idle" between calls)
  args,             \* the operators the driver built and hands to every evolve call
  mating_pool,      \* evolve's local mating_pool
  offsprings_pool,  \* perform_crossover's local offsprings_pool
  mutated_pool,     \* mutate's local mutated_pool
  result,           \* how the last evolve call ended: "none", "ok" or "error"
  pre,              \* the population as it was when the running call started
  generation,       \* the number of evolve calls the driver has made
  fn_in,            \* input of an operator applied on its own
  fn_out            \* what that operator returned

vars == <<chromosomes, genes, fitness, genes_type, population_size, pc, args,
          mating_pool, offsprings_pool, mutated_pool, result, pre,
          generation, fn_in, fn_out>>

-----------------------------------------------------------------------------
(* Bounds and the inputs the driver draws from.                             *)

PopulationSize == 3
ChromosomeLength == 2
\* generations_number of the driver's loop
MaxGenerations == 2

\* the resolution of probabilities: Scale stands for probability 1
Scale == 100
\* probability one half
Half == Scale \div 2

\* parents_selection_count handed to Selection.roulette_wheel
Counts == {1, 2, PopulationSize + 2}
\* crossover_probability handed to Crossover.single_point_crossover
CrossoverProbabilities == {Half, Scale, Scale + Half}
\* (mutation_probability, genes_type) handed to Mutation.flip_mutation
MutationConfigs ==
  {<<0, "binary">>, <<Half, "binary">>, <<Scale, "binary">>, <<Scale, "ternary">>}

\* The operators a driver builds. With a mating pool of 2 only the drivers
\* that mutate every gene are followed.
Operators ==
  {o \in {[count |-> c, crossover_probability |-> p,
           mutation_probability |-> m[1], genes_type |-> m[2]] :
            c \in Counts, p \in CrossoverProbabilities, m \in MutationConfigs} :
     o.count # 2 \/ o.mutation_probability = Scale}

\* the knapsack instance the driver evaluates the population with
Weights == [i \in 1..ChromosomeLength |-> i + 1]
Values == [i \in 1..ChromosomeLength |-> i + 2]
Capacity == 2 * ChromosomeLength

-----------------------------------------------------------------------------
(* Sequences.                                                               *)

Range(s) == {s[i] : i \in 1..Len(s)}

Min(a, b) == IF a < b THEN a ELSE b

\* Python's s[:k] for k >= 0
Prefix(s, k) == SubSeq(s, 1, Min(k, Len(s)))

\* Python's s[k:] for k >= 0
Suffix(s, k) == SubSeq(s, Min(k, Len(s)) + 1, Len(s))

RECURSIVE Sum(_)
Sum(s) == IF s = <<>> THEN 0 ELSE Head(s) + Sum(Tail(s))

\* every sequence of length n over S
SeqsOf(S, n) == [1..n -> S]

\* random.choice([0, 1])
Bits == {0, 1}

-----------------------------------------------------------------------------
(* Random draws.                                                            *)

\* random.random(): a value of [0, 1)
RandomUnit == {0, Half, Scale - 1}

\* random.randint(a, b): every integer of [a, b]
RandInt(a, b) == a..b

-----------------------------------------------------------------------------
(* Fitness.knapsack_fitness                                                 *)

\* itertools.compress(data, selectors): the data whose selector is truthy,
\* stopping at the shorter of the two
RECURSIVE compress(_, _)
compress(data, selectors) ==
  IF data = <<>> \/ selectors = <<>> THEN <<>>
  ELSE (IF Head(selectors) # 0 THEN <<Head(data)>> ELSE <<>>)
       \o compress(Tail(data), Tail(selectors))

\* a knapsack filled to its capacity scored as overweight
fitness_function_full_is_over(capacity, weights, values, g) ==
  LET total_weight == Sum(compress(weights, g)) IN
  IF total_weight >= capacity THEN 0 ELSE Sum(compress(values, g))

fitness_function(capacity, weights, values, g) ==
  LET total_weight == Sum(compress(weights, g)) IN
  IF total_weight > capacity THEN 0 ELSE Sum(compress(values, g))

\* Fitness.evaluate with the driver's knapsack instance
evaluate(g) == fitness_function(Capacity, Weights, Values, g)

-----------------------------------------------------------------------------
(* Selection.roulette_wheel                                                 *)

\* the fitness values shifted to start at 0
shifted_fitness_from_zero(fitness_values) ==
  LET lo == CHOOSE m \in Range(fitness_values) :
              \A v \in Range(fitness_values) : m <= v
  IN [i \in 1..Len(fitness_values) |-> fitness_values[i] - lo]

\* shifted_fitness = fitness_values - np.min(fitness_values) + 1
shifted_fitness(fitness_values) ==
  LET lo == CHOOSE m \in Range(fitness_values) :
              \A v \in Range(fitness_values) : m <= v
  IN [i \in 1..Len(fitness_values) |-> fitness_values[i] - lo + 1]

\* np.random.choice(n, size, replace=False, p): every list of size distinct
\* indices whose weight is positive; no list when size > n
WeightedChoice(weights, size) ==
  {s \in SeqsOf(1..Len(weights), size) :
     /\ \A i \in 1..size : weights[s[i]] > 0
     /\ \A i \in 1..size, j \in 1..size : i # j => s[i] # s[j]}

\* a selection that hands back the whole population when asked for more
selection_function_clamped(chroms, fit, parents_selection_count) ==
  LET size == Min(parents_selection_count, Len(chroms)) IN
  {[raised |-> FALSE, selected |-> [i \in 1..size |-> chroms[s[i]]]] :
     s \in WeightedChoice([i \in 1..Len(chroms) |-> 1], size)}

\* The outcomes of selection_function: raised, or the selected chromosomes.
selection_function(chroms, fit, parents_selection_count) ==
  IF chroms = <<>> \/ parents_selection_count < 0
     \/ parents_selection_count > Len(chroms)
  THEN {[raised |-> TRUE, selected |-> <<>>]}
  ELSE LET weights == shifted_fitness([i \in 1..Len(chroms) |-> fit[chroms[i]]])
       IN {[raised |-> FALSE,
            selected |-> [i \in 1..parents_selection_count |-> chroms[s[i]]]] :
             s \in WeightedChoice(weights, parents_selection_count)}

-----------------------------------------------------------------------------
(* Crossover.single_point_crossover                                         *)

\* crossover_point = randint(1, len(parents[0].genes) - 1): the points it can
\* draw; none when the range is empty, and randint raises
crossover_points_any(length) == RandInt(0, length)

crossover_points(length) == RandInt(1, length - 1)

\* the second slice starting one gene late
recombine_late(genes1, genes2, crossover_point) ==
  <<Prefix(genes1, crossover_point) \o Suffix(genes2, crossover_point + 1),
    Prefix(genes2, crossover_point) \o Suffix(genes1, crossover_point + 1)>>

\* both offsprings built from the heads of the parents only
recombine_heads(genes1, genes2, crossover_point) ==
  <<Prefix(genes1, crossover_point) \o Prefix(genes2, crossover_point),
    Prefix(genes2, crossover_point) \o Prefix(genes1, crossover_point)>>

\* the genes of offspring1 and offspring2
recombine(genes1, genes2, crossover_point) ==
  <<Prefix(genes1, crossover_point) \o Suffix(genes2, crossover_point),
    Prefix(genes2, crossover_point) \o Suffix(genes1, crossover_point)>>

\* a crossover that takes a crossover_probability outside [0, 1] as it is
crossover_function_unchecked(parents, g, crossover_probability) ==
  LET none == [raised |-> TRUE, recombined |-> FALSE, point |-> 0,
               offsprings |-> <<>>, offspring1 |-> <<>>, offspring2 |-> <<>>]
  IN
  IF Len(parents) # 2 THEN {none}
  ELSE IF Len(g[parents[1]]) # Len(g[parents[2]]) THEN {none}
  ELSE UNION {
    IF draw * Scale > crossover_probability
    THEN {[none EXCEPT !.raised = FALSE, !.offsprings = parents]}
    ELSE {[raised |-> FALSE, recombined |-> TRUE, point |-> crossover_point,
           offsprings |-> <<>>,
           offspring1 |-> recombine(g[parents[1]], g[parents[2]], crossover_point)[1],
           offspring2 |-> recombine(g[parents[1]], g[parents[2]], crossover_point)[2]] :
             crossover_point \in crossover_points(Len(g[parents[1]]))}
    : draw \in RandInt(0, 1)}

\* The outcomes of crossover_function on the list parents of chromosome
\* identities, g the genes of the live chromosomes: raised, the parents list
\* returned as it is, or the genes of two new chromosomes.
crossover_function(parents, g, crossover_probability) ==
  LET none == [raised |-> TRUE, recombined |-> FALSE, point |-> 0,
               offsprings |-> <<>>, offspring1 |-> <<>>, offspring2 |-> <<>>]
  IN
  IF Len(parents) # 2 THEN {none}
  ELSE IF Len(g[parents[1]]) # Len(g[parents[2]]) THEN {none}
  ELSE IF crossover_probability < 0 \/ crossover_probability > Scale THEN {none}
  ELSE UNION {
    IF draw * Scale > crossover_probability
    THEN {[none EXCEPT !.raised = FALSE, !.offsprings = parents]}
    ELSE LET points == crossover_points(Len(g[parents[1]])) IN
         IF points = {} THEN {none}
         ELSE {LET offsprings == recombine(g[parents[1]], g[parents[2]],
                                           crossover_point)
               IN [raised |-> FALSE, recombined |-> TRUE,
                   point |-> crossover_point, offsprings |-> <<>>,
                   offspring1 |-> offsprings[1], offspring2 |-> offsprings[2]] :
                 crossover_point \in points}
    : draw \in RandInt(0, 1)}

-----------------------------------------------------------------------------
(* Mutation.flip_mutation                                                   *)

\* the value a mutated gene is given, per genes_type: int(random.uniform(0, 1))
\* truncates a value of [0, 1) to 0; random.choice([0, 1]) is either bit
mutated_gene(mutation_genes_type) ==
  IF mutation_genes_type = "binary" THEN {0} ELSE Bits

\* a draw equal to the mutation probability taken as a hit
mutation_draws_inclusive(mutation_probability) ==
  {r <= mutation_probability : r \in RandomUnit}

\* random.random() < mutation_probability: whether a gene is hit, over the
\* values random.random() can return
mutation_draws(mutation_probability) ==
  {r < mutation_probability : r \in RandomUnit}

\* The loop of mutation_function from gene i on: the outcomes are the genes
\* the chromosome is left with and whether the ValueError was raised.
RECURSIVE mutation_loop(_, _, _, _)
mutation_loop(g, i, mutation_probability, mutation_genes_type) ==
  IF i > Len(g) THEN {[raised |-> FALSE, genes |-> g]}
  ELSE UNION {
    IF hit
    THEN IF mutation_genes_type \notin {"binary", "floating_point"}
         THEN {[raised |-> TRUE, genes |-> g]}
         ELSE UNION {mutation_loop([g EXCEPT ![i] = v], i + 1,
                                   mutation_probability, mutation_genes_type) :
                       v \in mutated_gene(mutation_genes_type)}
    ELSE mutation_loop(g, i + 1, mutation_probability, mutation_genes_type)
    : hit \in mutation_draws(mutation_probability)}

mutation_function(g, mutation_probability, mutation_genes_type) ==
  mutation_loop(g, 1, mutation_probability, mutation_genes_type)

-----------------------------------------------------------------------------
(* Population                                                               *)

\* The heap: a new Chromosome object takes the smallest identity no live
\* object has.
FreshId(used) ==
  CHOOSE i \in 1..(Cardinality(used) + 1) :
    i \notin used /\ \A j \in 1..(i - 1) : j \in used

\* the fields of the objects with an identity in keep
Restrict(f, keep) == [id \in DOMAIN f \cap keep |-> f[id]]

\* sorted(items, key=fitness, reverse=False): stable, ascending
sorted_ascending(items, fit) ==
  LET n == Len(items)
      rank(i) == Cardinality({j \in 1..n :
                   \/ fit[items[j]] < fit[items[i]]
                   \/ (fit[items[j]] = fit[items[i]] /\ j <= i)})
  IN [r \in 1..n |-> items[CHOOSE i \in 1..n : rank(i) = r]]

\* sorted(items, key=fitness, reverse=True): stable, descending
sorted_descending(items, fit) ==
  LET n == Len(items)
      rank(i) == Cardinality({j \in 1..n :
                   \/ fit[items[j]] > fit[items[i]]
                   \/ (fit[items[j]] = fit[items[i]] /\ j <= i)})
  IN [r \in 1..n |-> items[CHOOSE i \in 1..n : rank(i) = r]]

\* get_fittest_chromosomes(k): sorted_population[:k] if k > 1, else the single
\* Chromosome sorted_population[0] (list is FALSE: no list is returned), which
\* raises IndexError on an empty population
get_fittest_chromosomes(chroms, fit, k) ==
  LET sorted_population == sorted_descending(chroms, fit) IN
  IF k > 1
  THEN [raised |-> FALSE, list |-> TRUE, chromosomes |-> Prefix(sorted_population, k)]
  ELSE IF sorted_population = <<>>
  THEN [raised |-> TRUE, list |-> FALSE, chromosomes |-> <<>>]
  ELSE [raised |-> FALSE, list |-> FALSE, chromosomes |-> <<sorted_population[1]>>]

get_least_fit_chromosomes(chroms, fit, k) == Prefix(sorted_ascending(chroms, fit), k)

\* membership of a list of Chromosome objects is by identity
remove_chromosomes(chroms, chromosomes_to_remove) ==
  SelectSeq(chroms, LAMBDA c : c \notin Range(chromosomes_to_remove))

\* generate_new_population: the lists of genes lists it can return. The
\* floating_point branch draws genes and appends no chromosome; any other type
\* raises, and no list is returned.
generate_new_population(type, size, chromosome_length) ==
  IF type = "binary" THEN SeqsOf(SeqsOf(Bits, chromosome_length), size)
  ELSE IF type = "floating_point" THEN {<<>>}
  ELSE {}

NoSnapshot == [chromosomes |-> <<>>, genes |-> <<>>, fitness |-> <<>>]
NoCall == [op |-> "none"]

Init ==
  /\ genes_type \in {"binary", "floating_point"}
  /\ population_size = PopulationSize
  /\ \E population \in generate_new_population(genes_type, PopulationSize,
                                                ChromosomeLength) :
       /\ chromosomes = [i \in 1..Len(population) |-> i]
       /\ genes = [i \in 1..Len(population) |-> population[i]]
       /\ fitness = [i \in 1..Len(population) |-> 0]
  /\ pc = "idle"
  /\ args \in Operators
  /\ mating_pool = <<>>
  /\ offsprings_pool = <<>>
  /\ mutated_pool = <<>>
  /\ result = "none"
  /\ pre = NoSnapshot
  /\ generation = 0
  /\ fn_in = NoCall
  /\ fn_out = NoCall

\* An error leaves evolve: its locals are dropped, and with them the objects
\* only they referred to.
Raise ==
  /\ pc' = "idle"
  /\ result' = "error"
  /\ mating_pool' = <<>>
  /\ offsprings_pool' = <<>>
  /\ mutated_pool' = <<>>
  /\ pre' = NoSnapshot

\* a compute_fitness that keeps the score a chromosome already has and
\* evaluates only the chromosomes that still have the fitness of a new object
compute_fitness_new_only(chroms, g, f) ==
  [id \in DOMAIN f |->
     IF id \in Range(chroms) /\ f[id] = 0 THEN evaluate(g[id]) ELSE f[id]]

\* compute_fitness: set_fitness(evaluate(chromosome)) on every chromosome of
\* self.chromosomes; the stored fitness of the live chromosomes after it
compute_fitness(chroms, g, f) ==
  [id \in DOMAIN f |->
     IF id \in Range(chroms) THEN evaluate(g[id]) ELSE f[id]]

\* evolve is called; compute_fitness stores the fitness of every chromosome.
ComputeFitness ==
  /\ pc = "idle"
  /\ generation < MaxGenerations
  /\ generation' = generation + 1
  /\ pre' = [chromosomes |-> chromosomes, genes |-> genes, fitness |-> fitness]
  /\ fitness' = compute_fitness(chromosomes, genes, fitness)
  /\ pc' = "select"
  /\ result' = "none"
  /\ UNCHANGED <<chromosomes, genes, genes_type, population_size, args,
                 mating_pool, offsprings_pool, mutated_pool, fn_in, fn_out>>

\* perform_selection: the selection method on self.chromosomes.
PerformSelection ==
  /\ pc = "select"
  /\ \E out \in selection_function(chromosomes, fitness, args.count) :
       IF out.raised
       THEN Raise /\ UNCHANGED <<genes, fitness>>
       ELSE /\ mating_pool' = out.selected
            /\ pc' = "crossover"
            /\ UNCHANGED <<genes, fitness, offsprings_pool, mutated_pool,
                           result, pre>>
  /\ UNCHANGED <<chromosomes, genes_type, population_size, args, generation, fn_in, fn_out>>

\* perform_crossover: once per member of the mating pool, two parents are
\* drawn with replacement (random.choices) and their offsprings appended to the
\* pool. The outcomes from a pool built so far, with turns turns of the loop
\* left: raised, or the pool and the heap with the new chromosomes in it.
RECURSIVE perform_crossover(_, _, _, _, _, _)
perform_crossover(turns, mating, crossover_probability, pool, g, f) ==
  IF turns = 0 THEN {[raised |-> FALSE, pool |-> pool, genes |-> g, fitness |-> f]}
  ELSE UNION {
    UNION {
      IF out.raised
      THEN {[raised |-> TRUE, pool |-> <<>>, genes |-> g, fitness |-> f]}
      ELSE IF out.recombined
      THEN LET id1 == FreshId(DOMAIN g)
               id2 == FreshId(DOMAIN g \cup {id1})
           IN perform_crossover(turns - 1, mating, crossover_probability,
                                pool \o <<id1, id2>>,
                                g @@ (id1 :> out.offspring1) @@ (id2 :> out.offspring2),
                                f @@ (id1 :> 0) @@ (id2 :> 0))
      ELSE perform_crossover(turns - 1, mating, crossover_probability,
                             pool \o out.offsprings, g, f)
      : out \in crossover_function(<<mating[a], mating[b]>>, g, crossover_probability)}
    : a \in 1..Len(mating), b \in 1..Len(mating)}

\* mutate: the mutation method on every offspring of the pool in turn, in
\* place. The outcomes from offspring i on: raised or not, and the genes of
\* the heap.
RECURSIVE mutate(_, _, _, _, _)
mutate(i, pool, mutation_probability, mutation_genes_type, g) ==
  IF i > Len(pool) THEN {[raised |-> FALSE, genes |-> g]}
  ELSE UNION {
    IF out.raised
    THEN {[raised |-> TRUE, genes |-> [g EXCEPT ![pool[i]] = out.genes]]}
    ELSE mutate(i + 1, pool, mutation_probability, mutation_genes_type,
                [g EXCEPT ![pool[i]] = out.genes])
    : out \in mutation_function(g[pool[i]], mutation_probability, mutation_genes_type)}

PerformCrossover ==
  /\ pc = "crossover"
  /\ \E out \in perform_crossover(Len(mating_pool), mating_pool,
                                  args.crossover_probability, <<>>, genes, fitness) :
       IF out.raised
       THEN Raise /\ genes' = Restrict(genes, Range(chromosomes))
                  /\ fitness' = Restrict(fitness, Range(chromosomes))
       ELSE /\ offsprings_pool' = out.pool
            /\ genes' = out.genes
            /\ fitness' = out.fitness
            /\ pc' = "mutate"
            /\ UNCHANGED <<mating_pool, mutated_pool, result, pre>>
  /\ UNCHANGED <<chromosomes, genes_type, population_size, args, generation,
                 fn_in, fn_out>>

\* a mutate that puts the mutated offsprings into self.chromosomes itself
MutateIntoPopulation ==
  /\ pc = "mutate"
  /\ \E out \in mutate(1, offsprings_pool, args.mutation_probability,
                       args.genes_type, genes) :
       IF out.raised
       THEN Raise /\ genes' = Restrict(out.genes, Range(chromosomes))
                  /\ fitness' = Restrict(fitness, Range(chromosomes))
                  /\ chromosomes' = chromosomes
       ELSE /\ genes' = out.genes
            /\ mutated_pool' = offsprings_pool
            /\ chromosomes' = chromosomes \o offsprings_pool
            /\ pc' = "replace"
            /\ UNCHANGED <<fitness, mating_pool, offsprings_pool, result, pre>>
  /\ UNCHANGED <<genes_type, population_size, args, generation, fn_in, fn_out>>

Mutate ==
  /\ pc = "mutate"
  /\ \E out \in mutate(1, offsprings_pool, args.mutation_probability,
                       args.genes_type, genes) :
       IF out.raised
       THEN Raise /\ genes' = Restrict(out.genes, Range(chromosomes))
                  /\ fitness' = Restrict(fitness, Range(chromosomes))
       ELSE /\ genes' = out.genes
            /\ mutated_pool' = offsprings_pool
            /\ pc' = "replace"
            /\ UNCHANGED <<fitness, mating_pool, offsprings_pool, result, pre>>
  /\ UNCHANGED <<chromosomes, genes_type, population_size, args, generation,
                 fn_in, fn_out>>

\* The least fit chromosomes are removed, the mutated pool is appended and the
\* list takes the place of self.chromosomes; evolve returns.
Replace ==
  /\ pc = "replace"
  /\ LET least == get_least_fit_chromosomes(chromosomes, fitness, Len(mutated_pool))
         new_population == remove_chromosomes(chromosomes, least) \o mutated_pool
     IN /\ chromosomes' = new_population
        /\ genes' = Restrict(genes, Range(new_population))
        /\ fitness' = Restrict(fitness, Range(new_population))
  /\ pc' = "idle"
  /\ result' = "ok"
  /\ mating_pool' = <<>>
  /\ offsprings_pool' = <<>>
  /\ mutated_pool' = <<>>
  /\ pre' = NoSnapshot
  /\ UNCHANGED <<genes_type, population_size, args, generation, fn_in, fn_out>>

Next ==
  \/ ComputeFitness
  \/ PerformSelection
  \/ PerformCrossover
  \/ Mutate
  \/ Replace

Spec == Init /\ [][Next]_vars

-----------------------------------------------------------------------------
(* The operators applied on their own, on inputs drawn from bounded sets.   *)

\* the longest weights, values and genes lists handed to knapsack fitness
MaxItems == 3
\* the largest weight of an item
MaxWeight == 2
\* the largest value of an item
MaxValue == 2

\* the state of a population no evolve call is made on
Detached ==
  /\ chromosomes = <<>>
  /\ fitness = <<>>
  /\ genes_type = "binary"
  /\ population_size = 0
  /\ pc = "detached"
  /\ args \in {o \in Operators : o.count = 1 /\ o.crossover_probability = Scale
                                /\ o.mutation_probability = 0}
  /\ mating_pool = <<>>
  /\ offsprings_pool = <<>>
  /\ mutated_pool = <<>>
  /\ result = "none"
  /\ pre = NoSnapshot
  /\ generation = 0

\* weights and values are of one length; the genes evaluated are of any length
InitFitness ==
  /\ Detached
  /\ genes = <<>>
  /\ \E n \in 1..MaxItems :
       fn_in \in [op : {"knapsack_fitness"},
                  capacity : 0..(MaxItems * MaxWeight),
                  weights : SeqsOf(1..MaxWeight, n),
                  values : SeqsOf(1..MaxValue, n),
                  genes : UNION {SeqsOf(Bits, m) : m \in 0..MaxItems}]
  /\ fn_out = NoCall

\* Fitness.knapsack_fitness(capacity, weights, values).evaluate on the genes.
\* fitness_function has no raise statement, and compress and sum take lists of
\* any length: the call returns a value.
ApplyFitness ==
  /\ fn_in.op = "knapsack_fitness"
  /\ fn_out = NoCall
  /\ fn_out' = [op |-> "knapsack_fitness",
                raised |-> FALSE,
                value |-> fitness_function(fn_in.capacity, fn_in.weights,
                                           fn_in.values, fn_in.genes)]
  /\ UNCHANGED <<chromosomes, genes, fitness, genes_type, population_size, pc,
                 args, mating_pool, offsprings_pool, mutated_pool, result, pre,
                 generation, fn_in>>

SpecFitness == InitFitness /\ [][ApplyFitness]_vars

\* the longest genes list of a parent handed to cross_over
MaxLength == 3
\* the longest parents list handed to cross_over
MaxParents == 3

\* crossover_probability of the crossover applied on its own
AnyProbabilities == {0 - Half, 0, Half, Scale, Scale + Half}

InitCrossover ==
  /\ Detached
  /\ genes \in [1..2 -> UNION {SeqsOf(Bits, n) : n \in 1..MaxLength}]
  /\ \E n \in 1..MaxParents :
       fn_in \in [op : {"cross_over"},
                  parents : SeqsOf(1..2, n),
                  crossover_probability : AnyProbabilities]
  /\ fn_out = NoCall

\* Crossover.single_point_crossover(crossover_probability).cross_over(parents)
ApplyCrossover ==
  /\ fn_in.op = "cross_over"
  /\ fn_out = NoCall
  /\ \E out \in crossover_function(fn_in.parents, genes, fn_in.crossover_probability) :
       fn_out' = [op |-> "cross_over", out |-> out]
  /\ UNCHANGED <<chromosomes, genes, fitness, genes_type, population_size, pc,
                 args, mating_pool, offsprings_pool, mutated_pool, result, pre,
                 generation, fn_in>>

SpecCrossover == InitCrossover /\ [][ApplyCrossover]_vars

\* genes_type of the flip mutation applied on its own
GenesTypes == {"binary", "floating_point", "ternary"}

InitMutation ==
  /\ Detached
  /\ genes \in [1..2 -> UNION {SeqsOf(Bits, n) : n \in 0..MaxLength}]
  /\ fn_in \in [op : {"perform_mutation"},
                 chromosome : 1..2,
                 mutation_probability : AnyProbabilities,
                 genes_type : GenesTypes]
  /\ fn_out = NoCall

\* Mutation.flip_mutation(mutation_probability, genes_type).perform_mutation
\* on a chromosome: its genes are written in place and the chromosome itself
\* is returned, unless the call raised. before is the heap as the call found it.
ApplyMutation ==
  /\ fn_in.op = "perform_mutation"
  /\ fn_out = NoCall
  /\ \E out \in mutation_function(genes[fn_in.chromosome],
                                   fn_in.mutation_probability, fn_in.genes_type) :
       /\ genes' = [genes EXCEPT ![fn_in.chromosome] = out.genes]
       /\ fn_out' = [op |-> "perform_mutation",
                     raised |-> out.raised,
                     returned |-> IF out.raised THEN <<>> ELSE <<fn_in.chromosome>>,
                     before |-> genes]
  /\ UNCHANGED <<chromosomes, fitness, genes_type, population_size, pc,
                 args, mating_pool, offsprings_pool, mutated_pool, result, pre,
                 generation, fn_in>>

SpecMutation == InitMutation /\ [][ApplyMutation]_vars

\* the longest chromosomes list handed to the selection applied on its own
MaxChromosomes == 3
\* the largest stored fitness, of either sign, of a chromosome handed to it
MaxFitness == 2

InitSelection ==
  /\ Detached
  /\ genes = <<>>
  /\ \E n \in 1..MaxChromosomes :
       fn_in \in [op : {"select"},
                  chromosomes : {[i \in 1..n |-> i]},
                  fitness : [1..n -> (0 - MaxFitness)..MaxFitness],
                  parents_selection_count : 0..(MaxChromosomes + 1)]
  /\ fn_out = NoCall

\* Selection.roulette_wheel(parents_selection_count).select(chromosomes)
ApplySelection ==
  /\ fn_in.op = "select"
  /\ fn_out = NoCall
  /\ \E out \in selection_function(fn_in.chromosomes, fn_in.fitness,
                                    fn_in.parents_selection_count) :
       fn_out' = [op |-> "select", raised |-> out.raised, selected |-> out.selected]
  /\ UNCHANGED <<chromosomes, genes, fitness, genes_type, population_size, pc,
                 args, mating_pool, offsprings_pool, mutated_pool, result, pre,
                 generation, fn_in>>

SpecSelection == InitSelection /\ [][ApplySelection]_vars

-----------------------------------------------------------------------------
(* Properties.                                                              *)

\* the members of the population
Members == Range(chromosomes)

Max(S) == CHOOSE m \in S : \A v \in S : v <= m

\* the sum of f over the positions in S
RECURSIVE SumOver(_, _)
SumOver(f, S) ==
  IF S = {} THEN 0
  ELSE LET i == CHOOSE j \in S : TRUE IN f[i] + SumOver(f, S \ {i})

\* C1: with a binary population of population_size N and a selection count c
\* with 2*c <= N, the chromosome list has exactly N entries after every
\* successful evolve call.
C1_SizeInvariant ==
  (/\ genes_type = "binary"
   /\ 2 * args.count <= population_size
   /\ pc = "idle" /\ result = "ok")
  => Len(chromosomes) = population_size

\* C2: an evolve call that fails leaves the chromosome list, the genes and the
\* stored fitness of every chromosome as they were when the call started.
C2_FailedEvolveRestores ==
  [][(pc # "idle" /\ result' = "error")
     => (/\ chromosomes' = pre.chromosomes
         /\ genes' = pre.genes
         /\ fitness' = pre.fitness)]_vars

\* C3: with 2*count < population_size, the maximum fitness of the genes of the
\* population that REPLACE commits (what the next EVALUATE computes) is not
\* below the maximum fitness EVALUATE computed in this call.
C3_MaxFitnessMonotone ==
  [][(/\ pc = "replace" /\ pc' = "idle"
      /\ 2 * args.count < population_size
      /\ Members # {} /\ chromosomes' # <<>>)
     => Max({evaluate(genes'[id]) : id \in Range(chromosomes')})
          >= Max({fitness[id] : id \in Members})]_vars

\* C4: an evolve call with count <= population size < 2 * count ends in an
\* error.
C4_OversizedPoolFails ==
  (/\ args.count <= population_size
   /\ 2 * args.count > population_size
   /\ pc = "idle" /\ generation >= 1)
  => result = "error"

\* C5: the mating pool roulette_wheel(count) returns in an evolve call holds
\* exactly count chromosomes and no chromosome identity twice.
C5_MatingPoolDistinct ==
  pc = "crossover"
  => (/\ Len(mating_pool) = args.count
      /\ Cardinality(Range(mating_pool)) = Len(mating_pool))

\* C6: roulette_wheel(count).select raises and returns no mating pool whenever
\* count exceeds the number of chromosomes: on every population evolve
\* reaches, for every such count, and evolve never gets a mating pool from it.
C6_SelectionRaisesOnLargeCount ==
  /\ \A k \in (Len(chromosomes) + 1)..(Len(chromosomes) + 3) :
       \A out \in selection_function(chromosomes, fitness, k) :
         out.raised /\ out.selected = <<>>
  /\ pc \in {"crossover", "mutate", "replace"} => args.count <= Len(chromosomes)
  /\ (pc = "idle" /\ generation >= 1 /\ args.count > Len(chromosomes))
     => (result = "error" /\ mating_pool = <<>>)

\* C6 witness: evolve has failed in the selection of more chromosomes than the
\* binary population holds.
C6_Witness ==
  /\ pc = "idle" /\ result = "error" /\ generation >= 1
  /\ chromosomes # <<>>
  /\ args.count > Len(chromosomes)

\* C7: in a binary population of chromosome_length L >= 2 every chromosome has
\* exactly L genes, each 0 or 1, after construction and in every state of every
\* evolve call.
C7_BinaryGenes ==
  (genes_type = "binary" /\ pc # "detached" /\ ChromosomeLength >= 2)
  => \A id \in Members :
       /\ Len(genes[id]) = ChromosomeLength
       /\ \A i \in 1..Len(genes[id]) : genes[id][i] \in {0, 1}

\* C7 witness: a second evolve call has committed a population of recombined,
\* mutated offsprings, one of which holds a 1.
C7_Witness ==
  /\ genes_type = "binary" /\ pc = "idle" /\ result = "ok"
  /\ generation = 2
  /\ args.crossover_probability = Scale
  /\ args.mutation_probability = Half
  /\ \E id \in Members : Sum(genes[id]) >= 1

\* C8: right after construction the population holds population_size
\* chromosomes of chromosome_length genes each, for either genes type.
C8_ConstructedSize ==
  (generation = 0 /\ pc = "idle")
  => (/\ Len(chromosomes) = population_size
      /\ \A id \in Members : Len(genes[id]) = ChromosomeLength)

\* C9: knapsack fitness of a 0/1 mask as long as weights and values is 0 when
\* the weights at the positions holding 1 sum to more than capacity, and the
\* sum of the values at those positions otherwise.
C9_KnapsackFitness ==
  (fn_out.op = "knapsack_fitness" /\ Len(fn_in.genes) = Len(fn_in.weights))
  => LET chosen == {i \in 1..Len(fn_in.genes) : fn_in.genes[i] = 1} IN
     fn_out.value = IF SumOver(fn_in.weights, chosen) > fn_in.capacity THEN 0
                    ELSE SumOver(fn_in.values, chosen)

\* C9 witness: a mask whose weight equals the capacity was scored with the
\* value of its items.
C9_Witness ==
  /\ fn_out.op = "knapsack_fitness"
  /\ Len(fn_in.genes) = Len(fn_in.weights)
  /\ LET chosen == {i \in 1..Len(fn_in.genes) : fn_in.genes[i] = 1} IN
     /\ chosen # {}
     /\ SumOver(fn_in.weights, chosen) = fn_in.capacity
     /\ fn_out.value = SumOver(fn_in.values, chosen)
     /\ fn_out.value > 0

\* the call in fn_in hands cross_over two parents of one length L >= 2 with
\* crossover probability 1
C10_Case ==
  /\ fn_in.op = "cross_over"
  /\ fn_in.crossover_probability = Scale
  /\ Len(fn_in.parents) = 2
  /\ Len(genes[fn_in.parents[1]]) = Len(genes[fn_in.parents[2]])
  /\ Len(genes[fn_in.parents[1]]) >= 2

\* C10: with crossover probability 1 and two parents of length L >= 2,
\* cross_over recombines at a point of [1, L-1] and
\* offspring1[:point] + offspring2[point:] is parent 1's genes,
\* offspring2[:point] + offspring1[point:] parent 2's.
C10_CrossoverRoundTrip ==
  (fn_out.op = "cross_over" /\ C10_Case)
  => LET out == fn_out.out
         parent1 == genes[fn_in.parents[1]]
         parent2 == genes[fn_in.parents[2]]
     IN /\ ~out.raised
        /\ out.recombined
        /\ out.point \in 1..(Len(parent1) - 1)
        /\ Prefix(out.offspring1, out.point) \o Suffix(out.offspring2, out.point)
             = parent1
        /\ Prefix(out.offspring2, out.point) \o Suffix(out.offspring1, out.point)
             = parent2

\* C10 witness: two different parents of length 3 were recombined at point 2
\* with probability 1.
C10_Witness ==
  /\ fn_out.op = "cross_over" /\ C10_Case
  /\ fn_out.out.recombined /\ fn_out.out.point = 2
  /\ fn_in.parents[1] # fn_in.parents[2]
  /\ genes[fn_in.parents[1]] # genes[fn_in.parents[2]]
  /\ fn_out.out.offspring1 # genes[fn_in.parents[1]]

\* the call in fn_in hands cross_over two parents of one gene length
ValidParents ==
  /\ fn_in.op = "cross_over"
  /\ Len(fn_in.parents) = 2
  /\ Len(genes[fn_in.parents[1]]) = Len(genes[fn_in.parents[2]])

\* C11: with crossover probability 0 cross_over never recombines: for every
\* pair of parents of one length it returns the two parents, unchanged.
C11_ZeroNeverRecombines ==
  (fn_out.op = "cross_over" /\ ValidParents /\ fn_in.crossover_probability = 0)
  => (/\ ~fn_out.out.raised
      /\ ~fn_out.out.recombined
      /\ fn_out.out.offsprings = fn_in.parents)

\* the genes of the chromosomes a cross_over call returned, in order
returned_genes(out) ==
  IF out.recombined THEN <<out.offspring1, out.offspring2>>
  ELSE [i \in 1..Len(out.offsprings) |-> genes[out.offsprings[i]]]

\* C12: every cross_over call on two parents of one gene length that returns,
\* returns exactly 2 offsprings of the parents' gene length each, recombined or
\* not.
C12_TwoOffspringsOfParentLength ==
  (fn_out.op = "cross_over" /\ ValidParents /\ ~fn_out.out.raised)
  => (/\ Len(returned_genes(fn_out.out)) = 2
      /\ \A i \in 1..Len(returned_genes(fn_out.out)) :
           Len(returned_genes(fn_out.out)[i]) = Len(genes[fn_in.parents[1]]))

\* C12 witness: two different parents of length 3 were recombined at point 1
\* with probability one half.
C12_Witness ==
  /\ fn_out.op = "cross_over" /\ ValidParents /\ ~fn_out.out.raised
  /\ fn_in.crossover_probability = Half
  /\ fn_out.out.recombined /\ fn_out.out.point = 1
  /\ Len(genes[fn_in.parents[1]]) = MaxLength
  /\ genes[fn_in.parents[1]] # genes[fn_in.parents[2]]

\* C13: cross_over raises and returns no offspring, whatever the recombination
\* draw, when the parents list has not exactly 2 elements, when the two parents
\* differ in gene length, or when the crossover probability is below 0 or
\* above 1.
C13_CrossoverRejects ==
  (/\ fn_out.op = "cross_over"
   /\ \/ ~ValidParents
      \/ fn_in.crossover_probability < 0
      \/ fn_in.crossover_probability > Scale)
  => (/\ fn_out.out.raised
      /\ fn_out.out.offsprings = <<>>
      /\ fn_out.out.offspring1 = <<>> /\ fn_out.out.offspring2 = <<>>
      /\ \A out \in crossover_function(fn_in.parents, genes,
                                        fn_in.crossover_probability) : out.raised)

\* C13 witness: two parents of one length 2 or more were rejected for a
\* crossover probability above 1.
C13_Witness ==
  /\ fn_out.op = "cross_over" /\ ValidParents
  /\ Len(genes[fn_in.parents[1]]) >= 2
  /\ fn_in.crossover_probability > Scale
  /\ fn_out.out.raised

\* C14: flip mutation with probability 0 alters no gene: after
\* perform_mutation the genes of every chromosome are what they were before the
\* call, and the chromosome returned is the one passed in.
C14_ZeroProbabilityKeepsGenes ==
  (fn_out.op = "perform_mutation" /\ fn_in.mutation_probability = 0)
  => (/\ genes = fn_out.before
      /\ fn_out.returned = <<fn_in.chromosome>>)

\* C14 witness: a flip mutation of probability 0 was applied to a chromosome
\* of the largest length that holds a 1, and returned.
C14_Witness ==
  /\ fn_out.op = "perform_mutation" /\ fn_in.mutation_probability = 0
  /\ fn_in.genes_type = "binary"
  /\ Len(genes[fn_in.chromosome]) = MaxLength
  /\ Sum(genes[fn_in.chromosome]) >= 1
  /\ ~fn_out.raised

\* C15: a gene redrawn by a binary flip mutation is a random bit: when a
\* chromosome that held a 0 has been mutated with probability 1, a 1 in the
\* place of that 0 is one of the results the call could give.
C15_BinaryRedrawCanGiveOne ==
  (/\ fn_out.op = "perform_mutation"
   /\ fn_in.genes_type = "binary"
   /\ fn_in.mutation_probability = Scale
   /\ \E i \in 1..Len(fn_out.before[fn_in.chromosome]) :
        fn_out.before[fn_in.chromosome][i] = 0)
  => \E out \in mutation_function(fn_out.before[fn_in.chromosome],
                                   fn_in.mutation_probability, fn_in.genes_type) :
       \E i \in 1..Len(out.genes) :
         fn_out.before[fn_in.chromosome][i] = 0 /\ out.genes[i] = 1

\* C16: perform_mutation of a flip mutation whose probability is below 0 or
\* above 1 raises.
C16_ProbabilityOutOfRangeRejected ==
  (/\ fn_out.op = "perform_mutation"
   /\ fn_in.mutation_probability < 0 \/ fn_in.mutation_probability > Scale)
  => fn_out.raised

\* C17: perform_mutation of a flip mutation whose genes type is neither binary
\* nor floating_point raises, for every chromosome and every probability.
C17_UnrecognizedTypeRejected ==
  (/\ fn_out.op = "perform_mutation"
   /\ fn_in.genes_type \notin {"binary", "floating_point"})
  => fn_out.raised

\* C18: knapsack fitness evaluated on genes whose length differs from the
\* length of weights and values is an error: the call raises and returns no
\* score.
C18_LengthMismatchRejected ==
  (fn_out.op = "knapsack_fitness" /\ Len(fn_in.genes) # Len(fn_in.weights))
  => fn_out.raised

\* s is items sorted by fitness, ascending for sign 1 and descending for sign
\* -1, items of equal fitness in the order they have in items
StablySorted(s, items, fit, sign) ==
  /\ Len(s) = Len(items)
  /\ \A a \in 1..Len(s), b \in 1..Len(s) :
       a < b => sign * fit[s[a]] <= sign * fit[s[b]]
  /\ \A v \in {fit[c] : c \in Range(items)} :
       SelectSeq(s, LAMBDA c : fit[c] = v) = SelectSeq(items, LAMBDA c : fit[c] = v)

\* C19: on the population an evolve call returned, for every k from 0 to the
\* population size, get_least_fit_chromosomes(k) is the list of the first k
\* chromosomes in ascending order of stored fitness and
\* get_fittest_chromosomes(k) the list of the first k in descending order,
\* chromosomes of equal fitness in population order.
C19_SortedPrefixes ==
  (pc = "idle" /\ result = "ok" /\ chromosomes # <<>>)
  => LET ascending == sorted_ascending(chromosomes, fitness)
         descending == sorted_descending(chromosomes, fitness)
     IN /\ StablySorted(ascending, chromosomes, fitness, 1)
        /\ StablySorted(descending, chromosomes, fitness, 0 - 1)
        /\ \A k \in 0..Len(chromosomes) :
             /\ get_least_fit_chromosomes(chromosomes, fitness, k)
                  = Prefix(ascending, k)
             /\ get_fittest_chromosomes(chromosomes, fitness, k)
                  = [raised |-> FALSE, list |-> TRUE,
                     chromosomes |-> Prefix(descending, k)]

\* C20: when the selection of an evolve call reads the population, the stored
\* fitness of every member is the fitness function applied to the genes it has
\* now, offsprings of the generation before and chromosomes it altered
\* included.
C20_EvaluatedBeforeSelect ==
  pc = "select"
  => \A id \in Members : fitness[id] = evaluate(genes[id])

\* C20 witness: the second evolve call is at its selection and has given a new
\* score to a chromosome that entered the call with the positive score of the
\* genes it had before the first call altered them.
C20_Witness ==
  /\ pc = "select" /\ generation = 2
  /\ \E id \in Members :
       /\ pre.fitness[id] > 0
       /\ fitness[id] # pre.fitness[id]
       /\ fitness[id] = evaluate(genes[id])

\* C21: REPLACE keeps no weaker chromosome over a stronger one: of the
\* chromosomes the population held before it, none that is still in the
\* population has a stored fitness below that of one that is gone; the
\* survivors are in the order they had, the mutated pool after them.
C21_ReplaceKeepsNoWeaker ==
  [][(pc = "replace" /\ pc' = "idle")
     => LET kept == Members \cap Range(chromosomes')
            removed == Members \ Range(chromosomes')
            survivors == SubSeq(chromosomes', 1,
                                Len(chromosomes') - Len(mutated_pool))
        IN /\ \A k \in kept, r \in removed : fitness[k] >= fitness[r]
           /\ Len(chromosomes') >= Len(mutated_pool)
           /\ chromosomes' = survivors \o mutated_pool
           /\ survivors = SelectSeq(chromosomes, LAMBDA c : c \in Range(survivors))]_vars

\* C22: within an evolve call only REPLACE changes the chromosome list, its
\* members and their order, and it does so in one step, the one evolve
\* returns with; every other stage, and a call that fails, leaves the list as
\* it is.
C22_OnlyReplaceChangesCollection ==
  [][chromosomes' # chromosomes
     => (pc = "replace" /\ pc' = "idle" /\ result' = "ok")]_vars

\* C22 witness: the second evolve call has come to REPLACE with a mutated pool
\* that holds a new chromosome, and the chromosome list is the one the call
\* started with.
C22_Witness ==
  /\ pc = "replace" /\ generation = 2
  /\ chromosomes = pre.chromosomes
  /\ \E id \in Range(mutated_pool) : id \notin Members
  /\ genes # pre.genes

\* C23: in roulette-wheel selection the weight f_i - min(f) + 1 of every
\* chromosome is at least 1, whatever the fitness values; so for every count
\* from 1 to the number of chromosomes, every chromosome, the least fit
\* included, is in one of the mating pools the call can return; and when all
\* fitness values are equal, all weights are.
C23_EveryChromosomeSelectable ==
  fn_in.op = "select"
  => LET n == Len(fn_in.chromosomes)
         fitness_values == [i \in 1..n |-> fn_in.fitness[fn_in.chromosomes[i]]]
         weights == shifted_fitness(fitness_values)
     IN /\ \A i \in 1..n : weights[i] >= 1
        /\ (fn_in.parents_selection_count \in 1..n)
           => \A i \in 1..n :
                \E out \in selection_function(fn_in.chromosomes, fn_in.fitness,
                                               fn_in.parents_selection_count) :
                  ~out.raised /\ fn_in.chromosomes[i] \in Range(out.selected)
        /\ (\A i \in 1..n : fitness_values[i] = fitness_values[1])
           => \A i \in 1..n : weights[i] = weights[1]

\* C23 witness: of three chromosomes, one of a negative fitness below that of
\* the two others, a selection of 1 returned the least fit one.
C23_Witness ==
  /\ fn_out.op = "select" /\ ~fn_out.raised
  /\ Len(fn_in.chromosomes) = MaxChromosomes
  /\ fn_in.parents_selection_count = 1
  /\ \E id \in Range(fn_out.selected) :
       /\ fn_in.fitness[id] < 0
       /\ \A other \in Range(fn_in.chromosomes) \ {id} :
            fn_in.fitness[other] > fn_in.fitness[id]

\* C24: the chromosome list of the population never holds one chromosome
\* object at two positions, however many evolve calls were made.
C24_NoDuplicateIdentities ==
  Cardinality(Members) = Len(chromosomes)

\* C25: an evolve call changes the genes of no chromosome that was in the
\* population before the call and is in it after: the genes of a surviving
\* member are those it had at EVALUATE, and its stored fitness is the fitness
\* of them.
C25_SurvivorsGenesUnchanged ==
  [][(pc = "replace" /\ pc' = "idle")
     => \A id \in Range(chromosomes') \cap Range(pre.chromosomes) :
          /\ genes'[id] = pre.genes[id]
          /\ fitness'[id] = evaluate(genes'[id])]_vars

\* C26: when evolve has returned, the stored fitness of every chromosome of
\* the population is the fitness function applied to its genes.
C26_StoredFitnessTrueAtReturn ==
  (pc = "idle" /\ result = "ok")
  => \A id \in Members : fitness[id] = evaluate(genes[id])

\* C27: on two parents of one gene length L >= 1 and a crossover probability
\* in [0, 1], cross_over returns offsprings and does not raise, chromosomes of
\* length 1 included; when it recombines, the point is in [1, L-1].
C27_ValidCrossoverNeverRaises ==
  (/\ fn_out.op = "cross_over" /\ ValidParents
   /\ Len(genes[fn_in.parents[1]]) >= 1
   /\ fn_in.crossover_probability >= 0
   /\ fn_in.crossover_probability <= Scale)
  => (/\ ~fn_out.out.raised
      /\ Len(returned_genes(fn_out.out)) = 2
      /\ fn_out.out.recombined
         => fn_out.out.point \in 1..(Len(genes[fn_in.parents[1]]) - 1))

====
